---- MODULE Spec2Model ----
(***************************************************************************)
(* A model of candies_realtime: the shared-memory header object            *)
(* (Getrawdata.__post_init__), the raw-window extraction (Getrawdata.chop),*)
(* the host side of featurize (planning, launches on a CUDA stream, crop,  *)
(* save, device lifetime) and the two CUDA kernels dedisperse and fastdmt. *)
(*                                                                         *)
(* Python floats are modelled as exact rationals [n |-> , d |-> ] in       *)
(* lowest terms.  Units of the host side: time in ms, frequency in units   *)
(* of 100 MHz, DM in pc cm^-3.  PostInit keeps the units of the source     *)
(* header (MHz, seconds).                                                  *)
(***************************************************************************)
EXTENDS Integers, Sequences, FiniteSets, TLC

VARIABLES
    pc,         \* position of the host code / phase of the kernel run
    hdr_dict,   \* the dictionary getdataheader() returned
    fil,        \* the fields of the Getrawdata object
    cand,       \* the candidate being processed: [t0, dm, wbin]
    src,        \* which content the shared-memory source holds
    win,        \* chop's locals: binbeg, binend, ncount, nread, nbegin
    data,       \* the array chop returns: data[channel][column]
    host,       \* featurize's host state (see HostInit)
    stream,     \* operations enqueued on the CUDA stream, not yet executed
    device,     \* "none", "bound" (cuda.select_device) or "closed" (cuda.close)
    kargs,      \* arguments and launch configuration of a kernel run
    gpudd,      \* device memory of the dedispersion output, flat, C order
    gpudmt,     \* device memory of the DM-transform output, flat, C order
    done,       \* work items that have finished: [dd |-> set, dmt |-> set]
    spill       \* atomic adds that landed outside their array

vars == <<pc, hdr_dict, fil, cand, src, win, data, host, stream, device,
          kargs, gpudd, gpudmt, done, spill>>

None == "None"

----------------------------------------------------------------------------
(* Python float arithmetic, as exact rational arithmetic.                   *)

RECURSIVE GCD(_, _)
GCD(a, b) == IF b = 0 THEN a ELSE GCD(b, a % b)

Abs(x) == IF x < 0 THEN -x ELSE x

RNorm(n, d) ==
    LET g == GCD(Abs(n), Abs(d))
        s == IF d < 0 THEN -1 ELSE 1
    IN  [n |-> s * (n \div g), d |-> s * (d \div g)]

RInt(i) == [n |-> i, d |-> 1]

LCM(a, b) == (a \div GCD(a, b)) * b

RAdd(a, b) ==
    LET l == LCM(a.d, b.d)
    IN  RNorm(a.n * (l \div a.d) + b.n * (l \div b.d), l)

RNeg(a) == [n |-> -a.n, d |-> a.d]

RSub(a, b) == RAdd(a, RNeg(b))

RMul(a, b) ==
    LET g1 == GCD(Abs(a.n), b.d)
        g2 == GCD(Abs(b.n), a.d)
    IN  IF a.n = 0 \/ b.n = 0 THEN RInt(0)
        ELSE RNorm((a.n \div g1) * (b.n \div g2), (a.d \div g2) * (b.d \div g1))

\* b is not zero
RDiv(a, b) == RMul(a, RNorm(b.d, b.n))

RLt(a, b) ==
    LET l == LCM(a.d, b.d)
    IN  a.n * (l \div a.d) < b.n * (l \div b.d)

RLe(a, b) == ~RLt(b, a)

RAbs(a) == [n |-> Abs(a.n), d |-> a.d]

\* int(x): truncation toward zero
RTrunc(a) == IF a.n >= 0 THEN a.n \div a.d ELSE -((-a.n) \div a.d)

\* x ** -2
RInvSq(a) == RNorm(a.d * a.d, a.n * a.n)

----------------------------------------------------------------------------
(* Getrawdata.__post_init__                                                 *)

HeaderKeys == {"Channels", "Bandwidth_MHz", "Frequency_Ch_0_Hz",
               "Sampling_time_uSec", "Num_bits_per_sample"}

\* The object's fields after the try block.  nt is a float: 4 * 100 * 1e6 / nf.
PostInitFields(h) ==
    LET nf == h["Channels"]
        bw == RInt(h["Bandwidth_MHz"])
        df == RDiv(bw, RInt(nf))
    IN  [nf |-> nf, bw |-> bw, df |-> df,
         fh |-> RInt(h["Frequency_Ch_0_Hz"]),
         dt |-> RDiv(RInt(h["Sampling_time_uSec"]), RInt(1000000)),
         nbits |-> h["Num_bits_per_sample"],
         nt |-> RDiv(RInt(400000000), RInt(nf))]

\* The band edges: a negative channel width is made positive and fl is set
\* from fh and bw; otherwise Frequency_Ch_0 is the bottom of the band.
BandEdgesPlain(o) ==
    IF RLt(o.df, RInt(0))
    THEN LET df == RAbs(o.df)
         IN  [df |-> df, fh |-> o.fh,
              fl |-> RAdd(RSub(o.fh, o.bw), RMul(RNorm(1, 2), df))]
    ELSE [df |-> o.df,
          fl |-> o.fh,
          fh |-> RSub(RAdd(o.fh, o.bw), RMul(RNorm(1, 2), o.df))]

BandEdges(o) == BandEdgesPlain(o)

PostInit ==
    /\ pc = "construct"
    /\ HeaderKeys \subseteq DOMAIN hdr_dict
    /\ LET o == PostInitFields(hdr_dict)
           e == BandEdges(o)
       IN  fil' = [nf |-> o.nf, bw |-> o.bw, nbits |-> o.nbits, nt |-> o.nt,
                   dt |-> o.dt, df |-> e.df, fl |-> e.fl, fh |-> e.fh]
    /\ pc' = "constructed"
    /\ UNCHANGED <<hdr_dict, cand, src, win, data, host, stream, device,
                   kargs, gpudd, gpudmt, done, spill>>

\* except KeyError: raise CandiesError
PostInitKeyError ==
    /\ pc = "construct"
    /\ ~(HeaderKeys \subseteq DOMAIN hdr_dict)
    /\ pc' = "CandiesError"
    /\ UNCHANGED <<hdr_dict, fil, cand, src, win, data, host, stream, device,
                   kargs, gpudd, gpudmt, done, spill>>

\* Headers the shared memory may hold.
MaxChannels == 6
HdrBandwidths == {-400, -200, -32, 32, 200, 400}
HdrFrequencies == {300, 550, 1500}
HdrSamplings == {64, 1310}

FullHeaders ==
    { [k \in HeaderKeys |->
          CASE k = "Channels" -> c
            [] k = "Bandwidth_MHz" -> b
            [] k = "Frequency_Ch_0_Hz" -> f
            [] k = "Sampling_time_uSec" -> s
            [] OTHER -> 8] :
      c \in 1..MaxChannels, b \in HdrBandwidths, f \in HdrFrequencies,
      s \in HdrSamplings }

\* A header with one of the keys missing.
PartialHeaders ==
    { [k \in HeaderKeys \ {m} |-> 1] : m \in HeaderKeys }

Idle ==
    /\ cand = None /\ src = None /\ win = None /\ data = None /\ host = None
    /\ stream = << >> /\ device = "none"
    /\ kargs = None /\ gpudd = << >> /\ gpudmt = << >>
    /\ done = None /\ spill = None

InitHeader ==
    /\ pc = "construct"
    /\ hdr_dict \in FullHeaders \cup PartialHeaders
    /\ fil = None
    /\ Idle

NextHeader == PostInit \/ PostInitKeyError

SpecHeader == InitHeader /\ [][NextHeader]_vars

\* C8: a header object built from Channels > 0, a non-zero bandwidth of
\* either sign and a positive sampling time has nf > 0, df > 0, dt > 0 and
\* fh > fl.
C8_HeaderInvariant ==
    pc = "constructed" =>
        /\ fil.nf > 0
        /\ RLt(RInt(0), fil.df)
        /\ RLt(RInt(0), fil.dt)
        /\ RLt(fil.fl, fil.fh)

----------------------------------------------------------------------------
(* candies.utilities (not among the sources): the dispersion constant and   *)
(* the delay <-> DM conversions, in the host side's units.                  *)

\* 4148.808 s MHz^2 cm^3/pc is 414.8808 ms (100 MHz)^2 cm^3/pc
kdm == 415

\* the dispersion delay of f with respect to fref at this DM
dm2delay(f, fref, dm) ==
    RMul(RMul(RInt(kdm), dm), RSub(RInvSq(f), RInvSq(fref)))

\* the DM at which f lags fref by t (f and fref differ)
delay2dm(f, fref, t) ==
    RDiv(t, RMul(RInt(kdm), RSub(RInvSq(f), RInvSq(fref))))

----------------------------------------------------------------------------
(* Getrawdata.chop                                                          *)

\* the least number of samples of a window, and of a feature's time axis
MinSamples == 256

\* lines 69-73: the window length, from the naive length and the width
WindowLengthPlain(ncount, wbin) ==
    IF wbin > 2 /\ (ncount \div (wbin \div 2)) < MinSamples
    THEN (MinSamples * wbin) \div 2
    ELSE IF ncount < MinSamples THEN MinSamples ELSE ncount

\* the same without the elif branch
WindowLengthNoFloor(ncount, wbin) ==
    IF wbin > 2 /\ (ncount \div (wbin \div 2)) < MinSamples
    THEN (MinSamples * wbin) \div 2
    ELSE ncount

WindowLength(ncount, wbin) == WindowLengthPlain(ncount, wbin)

\* lines 64-74 and the choice of the read case in lines 76-93
ChopWindow(f, c) ==
    LET maxdelay == dm2delay(f.fl, f.fh, RInt(c.dm))
        binbeg == RTrunc(RDiv(RSub(RInt(c.t0), maxdelay), f.dt)) - c.wbin
        binend == RTrunc(RDiv(RAdd(RInt(c.t0), maxdelay), f.dt)) + c.wbin
        ncount == binend - binbeg
        nread == WindowLength(ncount, c.wbin)
        nbegin == binbeg - ((nread - ncount) \div 2)
        inside == RLe(RInt(nbegin + nread), f.nt)
    IN  [binbeg |-> binbeg, binend |-> binend, ncount |-> ncount,
         nread |-> nread, nbegin |-> nbegin,
         case |-> IF nbegin >= 0 /\ inside THEN "inside"
                  ELSE IF nbegin < 0
                       THEN IF inside THEN "before" ELSE "around"
                       ELSE "beyond"]

\* self.nt is a float (line 30), so the slices data[:, -nbegin: -nbegin + self.nt]
\* and data[:, :self.nt - nbegin] of lines 88 and 93 have a float bound and
\* NumPy raises TypeError: only the first two cases return.
ChopReturns(w) == w.case \in {"inside", "before"}

\* The sample the shared memory holds for a channel at a time index.
Sample(s, ch, t) == (s.mul * t + s.add * ch) % s.mod

\* getdatabuffer: an nf x count array, d[channel][column], channels and
\* columns counted from 0
getdatabuffer(f, s, count, offset) ==
    [ch \in 0..(f.nf - 1) |-> [j \in 0..(count - 1) |-> Sample(s, ch, offset + j)]]

Values(row) == {row[j] : j \in DOMAIN row}

\* the k-th smallest value of a row, k counted from 0
OrderStat(row, k) ==
    CHOOSE v \in Values(row) :
        /\ Cardinality({j \in DOMAIN row : row[j] < v}) <= k
        /\ k < Cardinality({j \in DOMAIN row : row[j] <= v})

\* np.median of a row: the middle value, or the mean of the two middle values
MedianPlain(row) ==
    LET n == Cardinality(DOMAIN row)
    IN  IF n % 2 = 1 THEN RInt(OrderStat(row, n \div 2))
        ELSE RNorm(OrderStat(row, (n \div 2) - 1) + OrderStat(row, n \div 2), 2)

Median(row) == MedianPlain(row)

\* row[start:] = vals, for 0 <= start
SliceAssignPlain(row, start, vals) ==
    [j \in DOMAIN row |-> IF j >= start THEN RInt(vals[j - start]) ELSE row[j]]

\* row[:-start] = vals: the real samples at the head, the padding at the tail
SliceAssignHead(row, start, vals) ==
    [j \in DOMAIN row |->
        IF j < Cardinality(DOMAIN vals) THEN RInt(vals[j]) ELSE row[j]]

SliceAssign(row, start, vals) == SliceAssignPlain(row, start, vals)

\* lines 76-83: the array chop returns in the two cases that return
ChopData(f, s, w) ==
    IF w.case = "inside"
    THEN LET d == getdatabuffer(f, s, w.nread, w.nbegin)
         IN  [ch \in 0..(f.nf - 1) |-> [j \in 0..(w.nread - 1) |-> RInt(d[ch][j])]]
    ELSE LET d == getdatabuffer(f, s, w.nread + w.nbegin, 0)
         IN  [ch \in 0..(f.nf - 1) |->
                LET dmedian == Median(d[ch])
                    filled == [j \in 0..(w.nread - 1) |-> dmedian]
                IN  SliceAssign(filled, -w.nbegin, d[ch])]

chop ==
    /\ pc = "chop"
    /\ LET w == ChopWindow(fil, cand)
       IN  /\ win' = w
           /\ IF ChopReturns(w)
              THEN pc' = "returned" /\ data' = ChopData(fil, src, w)
              ELSE pc' = "TypeError" /\ data' = data
    /\ UNCHANGED <<hdr_dict, fil, cand, src, host, stream, device,
                   kargs, gpudd, gpudmt, done, spill>>

\* A header object in the host side's units: dt in ms, fl and fh in 100 MHz.
HeaderObject(nf, dt, fl, fh) ==
    [nf |-> nf, dt |-> RInt(dt), fl |-> RInt(fl), fh |-> RInt(fh),
     nt |-> RDiv(RInt(400000000), RInt(nf))]

\* The most channels of a header whose samples the model holds one by one.
MaxArrayChannels == 2
\* Headers with so many channels that the source holds only 400 samples
\* (line 30: nt = 4 * 100 * 1e6 / nf).
ManyChannels == {1000000}

\* The bands: 1200-1500 MHz, 300-500 MHz, and one that PostInit builds from
\* a negative bandwidth, with fl above fh.
ChopBands == {<<12, 15>>, <<3, 5>>, <<15, 12>>}

ChopHeaders ==
    { HeaderObject(nf, dt, b[1], b[2]) :
        nf \in (1..MaxArrayChannels) \cup ManyChannels,
        dt \in {1, 2}, b \in ChopBands }

ChopCandidates ==
    [t0 : {0, 50, 150, 1000}, dm : {0, 8, 80}, wbin : {0, 2, 3, 7}]

Sources == {[mul |-> 1, add |-> 1, mod |-> 5], [mul |-> 3, add |-> 2, mod |-> 4]}

InitChop ==
    /\ pc = "chop"
    /\ hdr_dict = None
    /\ fil \in ChopHeaders
    /\ cand \in ChopCandidates
    /\ src \in Sources
    /\ fil.nf > MaxArrayChannels => ~ChopReturns(ChopWindow(fil, cand))
    /\ win = None /\ data = None /\ host = None
    /\ stream = << >> /\ device = "none"
    /\ kargs = None /\ gpudd = << >> /\ gpudmt = << >>
    /\ done = None /\ spill = None

NextChop == chop

SpecChop == InitChop /\ [][NextChop]_vars

\* C1: the window length chop decides on is at least 256 samples and is
\* never shorter than the naive length binend - binbeg.
C1_WindowAtLeast256 ==
    pc \in {"returned", "TypeError"} =>
        win.nread >= 256 /\ win.nread >= win.binend - win.binbeg

\* a window of a wide candidate that was widened beyond 256 samples
C1_Witness ==
    /\ pc = "returned"
    /\ cand.wbin > 2
    /\ win.nread > win.ncount
    /\ win.nread > 256

\* m is NumPy's median of the row: the mean of its two middle values
IsMedianOf(m, row) ==
    LET n == Cardinality(DOMAIN row)
        Rank(v, k) == /\ Cardinality({j \in DOMAIN row : row[j] < v}) <= k
                      /\ k < Cardinality({j \in DOMAIN row : row[j] <= v})
    IN  \E lo \in Values(row), hi \in Values(row) :
            /\ Rank(lo, (n - 1) \div 2)
            /\ Rank(hi, n \div 2)
            /\ m = RNorm(lo + hi, 2)

\* C5: when the window starts before sample 0, every column of the padded
\* prefix [0, -nbegin) of the returned array holds the median of the
\* channel's samples that were read (samples 0 .. nread + nbegin - 1 of the
\* source), and column j after the prefix holds source sample j + nbegin.
C5_PaddedPrefixIsMedian ==
    (pc = "returned" /\ win.nbegin < 0) =>
        \A ch \in 0..(fil.nf - 1) :
            LET read == [t \in 0..(win.nread + win.nbegin - 1) |-> Sample(src, ch, t)]
            IN  /\ DOMAIN data[ch] = 0..(win.nread - 1)
                /\ \A j \in 0..(-win.nbegin - 1) :
                       data[ch][j] = data[ch][0]
                /\ IsMedianOf(data[ch][0], read)
                /\ \A j \in (-win.nbegin)..(win.nread - 1) :
                       data[ch][j] = RInt(Sample(src, ch, j + win.nbegin))

\* a returned window with a padded prefix and real samples after it, whose
\* median is not one of the samples
C5_Witness ==
    /\ pc = "returned"
    /\ win.nbegin < -1
    /\ win.nread + win.nbegin > 1
    /\ data[0][0].d = 2

----------------------------------------------------------------------------
(* featurize: the host side                                                 *)

ndms == 256         \* the number of trial DMs
FreqBins == 256     \* the divisor of downf = int(fil.nf / 256)
HalfCrop == 128     \* the crop [ntmid - 128 : ntmid + 128]
TileDim == 32       \* the edge of dedisperse's (32, 32) thread block
fudging == 512      \* the default of featurize's fudging parameter

\* lines 245-254: the DM range and step.  narrowed says whether zoom replaced
\* the base range [0, 2 dm].
PlanDM(f, c, zoom) ==
    LET dm == RInt(c.dm)
        halfwidth == delay2dm(f.fl, f.fh, RMul(RInt(fudging * c.wbin), f.dt))
        narrowed == zoom /\ RLt(halfwidth, dm)
        dmlow == IF narrowed THEN RSub(dm, halfwidth) ELSE RInt(0)
        dmhigh == IF narrowed THEN RAdd(dm, halfwidth) ELSE RMul(RInt(2), dm)
    IN  [dmlow |-> dmlow, dmhigh |-> dmhigh, narrowed |-> narrowed,
         ddm |-> RDiv(RSub(dmhigh, dmlow), RInt(ndms - 1))]

\* lines 257-258: the downsampling factors
DownF(f) == f.nf \div FreqBins
DownT(c) == IF c.wbin < 3 THEN 1 ELSE c.wbin \div 2

\* lines 263-264 and 306, for downf > 0
PlanShape(f, c, nt) ==
    LET downf == DownF(f)
        downt == DownT(c)
        ntdown == nt \div downt
    IN  [downf |-> downf, downt |-> downt,
         nfdown |-> f.nf \div downf, ntdown |-> ntdown,
         ntmid |-> ntdown \div 2]

\* lines 272-275 and 289-292: the launch configurations
LaunchConfig(f, nt) ==
    [dd_grid |-> <<f.nf \div TileDim, nt \div TileDim>>,
     dd_block |-> <<TileDim, TileDim>>,
     dmt_grid |-> nt,
     dmt_block |-> ndms]

\* the number of elements a[start:stop] selects from an axis of length n
SliceLen(start, stop, n) ==
    LET Clamp(i) == IF i < 0 THEN (IF i + n < 0 THEN 0 ELSE i + n)
                    ELSE (IF i > n THEN n ELSE i)
        d == Clamp(stop) - Clamp(start)
    IN  IF d < 0 THEN 0 ELSE d

\* lines 309 and 323: the shape of array[:, ntmid - 128 : ntmid + 128]
CropShape(rows, p) ==
    <<rows, SliceLen(p.ntmid - HalfCrop, p.ntmid + HalfCrop, p.ntdown)>>

Raise(exc) ==
    /\ pc' = "raised"
    /\ host' = [host EXCEPT !.exc = exc]

\* lines 227-228: cuda.select_device(gpuid); stream = cuda.stream()
SelectDevice ==
    /\ pc = "select"
    /\ device' = "bound"
    /\ pc' = "enter"
    /\ UNCHANGED <<hdr_dict, fil, cand, src, win, data, host, stream,
                   kargs, gpudd, gpudmt, done, spill>>

\* the driver finds no such device
SelectDeviceFails ==
    /\ pc = "select"
    /\ Raise("CudaSupportError")
    /\ UNCHANGED <<hdr_dict, fil, cand, src, win, data, stream, device,
                   kargs, gpudd, gpudmt, done, spill>>

\* lines 233-235: the three with statements; Getrawdata() runs __post_init__
EnterContexts ==
    /\ pc = "enter"
    /\ IF host.header_ok
       THEN pc' = "loop" /\ host' = host
       ELSE Raise("CandiesError")
    /\ UNCHANGED <<hdr_dict, fil, cand, src, win, data, stream, device,
                   kargs, gpudd, gpudmt, done, spill>>

\* line 236: the next candidate of the batch
NextCandidate ==
    /\ pc = "loop"
    /\ host.queue # << >>
    /\ cand' = Head(host.queue)
    /\ host' = [host EXCEPT !.queue = Tail(@)]
    /\ pc' = "chop"
    /\ UNCHANGED <<hdr_dict, fil, src, win, data, stream, device,
                   kargs, gpudd, gpudmt, done, spill>>

\* lines 241-264: the window, then the plan; int(fil.nf / downf) divides by
\* zero when fil.nf < 256
ChopAndPlan ==
    /\ pc = "chop"
    /\ LET w == ChopWindow(fil, cand)
       IN  /\ win' = w
           /\ IF ~ChopReturns(w) THEN Raise("TypeError")
              ELSE IF DownF(fil) = 0 THEN Raise("ZeroDivisionError")
              ELSE /\ pc' = "launch"
                   /\ host' = [host EXCEPT
                         !.dm = PlanDM(fil, cand, host.zoom),
                         !.shape = PlanShape(fil, cand, w.nread)]
    /\ UNCHANGED <<hdr_dict, fil, cand, src, data, stream, device,
                   kargs, gpudd, gpudmt, done, spill>>

\* lines 266-304: the copy of the window to the device and the two kernel
\* launches, all enqueued on the stream
Launch ==
    /\ pc = "launch"
    /\ host' = [host EXCEPT !.launch = LaunchConfig(fil, win.nread),
                            !.launched = TRUE]
    /\ stream' = stream \o <<"to_device", "dedisperse", "fastdmt">>
    /\ pc' = "copy_dd"
    /\ UNCHANGED <<hdr_dict, fil, cand, src, win, data, device,
                   kargs, gpudd, gpudmt, done, spill>>

\* the driver refuses an allocation or a launch
LaunchFails ==
    /\ pc = "launch"
    /\ Raise("CudaAPIError")
    /\ UNCHANGED <<hdr_dict, fil, cand, src, win, data, stream, device,
                   kargs, gpudd, gpudmt, done, spill>>

\* line 308: gpudd.copy_to_host(stream=stream), asynchronous on the stream
CopyDD ==
    /\ pc = "copy_dd"
    /\ stream' = Append(stream, "copy_dd")
    /\ pc' = "crop_dd"
    /\ UNCHANGED <<hdr_dict, fil, cand, src, win, data, host, device,
                   kargs, gpudd, gpudmt, done, spill>>

\* lines 309-320: crop and normalise the host array; it holds the result
\* only if the device has executed the copy
CropDD ==
    /\ pc = "crop_dd"
    /\ host' = [host EXCEPT !.dedispersed =
                   [shape |-> CropShape(host.shape.nfdown, host.shape),
                    copied |-> stream = << >>]]
    /\ pc' = "copy_dmt"
    /\ UNCHANGED <<hdr_dict, fil, cand, src, win, data, stream, device,
                   kargs, gpudd, gpudmt, done, spill>>

\* line 322
CopyDMT ==
    /\ pc = "copy_dmt"
    /\ stream' = Append(stream, "copy_dmt")
    /\ pc' = "crop_dmt"
    /\ UNCHANGED <<hdr_dict, fil, cand, src, win, data, host, device,
                   kargs, gpudd, gpudmt, done, spill>>

\* lines 323-334: the candidate now holds both features
CropDMT ==
    /\ pc = "crop_dmt"
    /\ host' = [host EXCEPT !.features = Append(@,
                   [dedispersed |-> host.dedispersed,
                    dmtransform |-> [shape |-> CropShape(ndms, host.shape),
                                     copied |-> stream = << >>]])]
    /\ pc' = "save"
    /\ UNCHANGED <<hdr_dict, fil, cand, src, win, data, stream, device,
                   kargs, gpudd, gpudmt, done, spill>>

\* lines 336-340
Save ==
    /\ pc = "save"
    /\ host' = [host EXCEPT !.files = IF host.save THEN @ + 1 ELSE @]
    /\ pc' = "loop"
    /\ UNCHANGED <<hdr_dict, fil, cand, src, win, data, stream, device,
                   kargs, gpudd, gpudmt, done, spill>>

\* candidate.save cannot write the file
SaveFails ==
    /\ pc = "save"
    /\ host.save
    /\ Raise("OSError")
    /\ UNCHANGED <<hdr_dict, fil, cand, src, win, data, stream, device,
                   kargs, gpudd, gpudmt, done, spill>>

\* the batch is done: auto_synchronize's exit waits for the stream to drain
Synchronize ==
    /\ pc = "loop"
    /\ host.queue = << >>
    /\ stream = << >>
    /\ pc' = "close"
    /\ UNCHANGED <<hdr_dict, fil, cand, src, win, data, host, stream, device,
                   kargs, gpudd, gpudmt, done, spill>>

\* lines 342-343: cuda.close(); return generated_files
Close ==
    /\ pc = "close"
    /\ device' = "closed"
    /\ pc' = "returned"
    /\ UNCHANGED <<hdr_dict, fil, cand, src, win, data, host, stream,
                   kargs, gpudd, gpudmt, done, spill>>

\* the device executes the first operation of the stream
StreamExec ==
    /\ stream # << >>
    /\ stream' = Tail(stream)
    /\ UNCHANGED <<pc, hdr_dict, fil, cand, src, win, data, host, device,
                   kargs, gpudd, gpudmt, done, spill>>

HostHeaders ==
    { HeaderObject(nf, 1, b[1], b[2]) :
        nf \in {128, 256, 300, 1000}, b \in {<<12, 15>>, <<3, 5>>} }

HostCandidates ==
    [t0 : {50, 1000, 400000}, dm : {0, 80}, wbin : {0, 7}]

\* The longest batch of candidates.
MaxBatch == 2

RECURSIVE Batches(_)
Batches(n) ==
    IF n = 0 THEN {<< >>}
    ELSE LET shorter == Batches(n - 1)
         IN  shorter \cup
             {<<c>> \o b : c \in HostCandidates,
                           b \in {x \in shorter : Len(x) = n - 1}}

Init ==
    /\ pc = "select"
    /\ hdr_dict = None
    /\ fil \in HostHeaders
    /\ cand = None /\ src = None /\ win = None /\ data = None
    /\ \E q \in Batches(MaxBatch), z \in BOOLEAN, sv \in BOOLEAN,
          ok \in BOOLEAN :
          host = [queue |-> q, zoom |-> z, save |-> sv, header_ok |-> ok,
                  dm |-> None, shape |-> None, launch |-> None,
                  launched |-> FALSE, dedispersed |-> None,
                  features |-> << >>, files |-> 0, exc |-> None]
    /\ stream = << >> /\ device = "none"
    /\ kargs = None /\ gpudd = << >> /\ gpudmt = << >>
    /\ done = None /\ spill = None

Next ==
    \/ SelectDevice \/ SelectDeviceFails \/ EnterContexts \/ NextCandidate
    \/ ChopAndPlan \/ Launch \/ LaunchFails \/ CopyDD \/ CropDD \/ CopyDMT
    \/ CropDMT \/ Save \/ SaveFails \/ Synchronize \/ Close \/ StreamExec

Spec == Init /\ [][Next]_vars

\* the positions at which the candidate's plan exists
Planned == {"launch", "copy_dd", "crop_dd", "copy_dmt", "crop_dmt", "save"}

\* C2: both features stored on a processed candidate are 256 x 256, for
\* every wbin, dm and channel count nf.
C2_FeaturesAre256x256 ==
    \A i \in DOMAIN host.features :
        /\ host.features[i].dedispersed.shape = <<256, 256>>
        /\ host.features[i].dmtransform.shape = <<256, 256>>

\* C3: the planned DM grid dmlow + i ddm, i in 0..255, is strictly
\* increasing, ends at dmhigh, and a range narrowed by zoom contains dm.
C3_DMGridAscending ==
    pc \in Planned =>
        LET p == host.dm
            Grid(i) == RAdd(p.dmlow, RMul(RInt(i), p.ddm))
        IN  /\ RLt(RInt(0), p.ddm)
            /\ \A i \in 0..(ndms - 2) : RLt(Grid(i), Grid(i + 1))
            /\ Grid(ndms - 1) = p.dmhigh
            /\ p.narrowed =>
                   RLe(p.dmlow, RInt(cand.dm)) /\ RLe(RInt(cand.dm), p.dmhigh)

\* C6: the device is bound before the first kernel launch and is released
\* on every path out of featurize, the raising ones included.
C6_DeviceReleasedOnExit ==
    /\ host.launched => device # "none"
    /\ pc \in {"returned", "raised"} => device # "bound"

\* C7: when the host crops a candidate's results, and when the next
\* candidate begins, the device has executed the launches and both copies.
C7_SynchronizedPerCandidate ==
    /\ \A i \in DOMAIN host.features :
           /\ host.features[i].dedispersed.copied
           /\ host.features[i].dmtransform.copied
    /\ pc = "chop" => stream = << >>

\* the work items at position p of one axis of a launch
AxisItems(p, nblocks, nthreads) ==
    {w \in (0..(nblocks - 1)) \X (0..(nthreads - 1)) : w[1] * nthreads + w[2] = p}

\* C9: under featurize's launch configuration every (fi, ti) with fi < nf,
\* ti < nt has exactly one dedisperse work item, and every (ti, dmi) with
\* ti < nt, dmi < 256 exactly one fastdmt work item.  A work item's position
\* is a pair of axis positions, so the items at (fi, ti) are the pairs of an
\* item at fi of the first axis and an item at ti of the second.
C9_OneWorkItemPerPair ==
    pc \in (Planned \ {"launch"}) =>
        LET l == host.launch
            nt == win.nread
        IN  /\ \A fi \in 0..(fil.nf - 1) :
                   Cardinality(AxisItems(fi, l.dd_grid[1], l.dd_block[1])) = 1
            /\ \A ti \in 0..(nt - 1) :
                   Cardinality(AxisItems(ti, l.dd_grid[2], l.dd_block[2])) = 1
            /\ \A ti \in 0..(nt - 1) :
                   Cardinality(AxisItems(ti, l.dmt_grid, 1)) = 1
            /\ \A dmi \in 0..(ndms - 1) :
                   Cardinality(AxisItems(dmi, 1, l.dmt_block)) = 1

\* lines 112 and 168: the row and the column of the output a work item
\* adds to, int(fi / downf) and int(ti / downt)
TargetRow(fi, downf) == fi \div downf
TargetCol(ti, downt) == ti \div downt

\* the work items a launch axis of nblocks blocks of nthreads threads has
\* among the positions 0 .. n - 1
AxisCovered(n, nblocks, nthreads) ==
    {p \in 0..(n - 1) : p < nblocks * nthreads}

\* C11: every work item with fi < nf and ti < nt adds to a cell inside the
\* allocated output: int(fi / downf) < nfdown and int(ti / downt) < ntdown,
\* for dedisperse's work items and for fastdmt's, whatever window length
\* chop produced and whatever wbin is.
C11_TargetsInsideOutputs ==
    pc \in (Planned \ {"launch"}) =>
        LET l == host.launch
            p == host.shape
            nt == win.nread
        IN  /\ \A fi \in AxisCovered(fil.nf, l.dd_grid[1], l.dd_block[1]) :
                   TargetRow(fi, p.downf) < p.nfdown
            /\ \A ti \in AxisCovered(nt, l.dd_grid[2], l.dd_block[2]) :
                   TargetCol(ti, p.downt) < p.ntdown
            /\ \A ti \in AxisCovered(nt, l.dmt_grid, 1) :
                   TargetCol(ti, p.downt) < p.ntdown

----------------------------------------------------------------------------
(* The kernels dedisperse and fastdmt, one atomic step per work item.       *)
(* Device arrays are flat, in C order; an index is not checked against the  *)
(* shape, so element (r, c) of an array with ncols columns is cell          *)
(* r * ncols + c of its memory, and a cell past the end is outside it.      *)

\* round(x): to the nearest integer, a tie to the even one
RRound(a) ==
    LET lo == a.n \div a.d
        twice == 2 * (a.n - lo * a.d)
    IN  IF twice < a.d THEN lo
        ELSE IF twice > a.d THEN lo + 1
        ELSE IF lo % 2 = 0 THEN lo ELSE lo + 1

\* lines 104-107 and 159-163: the delay of channel fi at this DM, in samples
DelayBin(a, fi, dm) ==
    LET k1 == RDiv(RMul(RInt(kdm), dm), a.dt)
        k2 == RMul(k1, RInvSq(a.fh))
        f == RSub(a.fh, RMul(RInt(fi), a.df))
    IN  RRound(RSub(RMul(k1, RInvSq(f)), k2))

\* lines 108-110 and 164-166: the sample index, wrapped once
WrapIndex(ti, dbin, nt) == IF ti + dbin >= nt THEN ti + dbin - nt ELSE ti + dbin

\* cuda.atomic.add(array, index, value) on a cell of the array's memory
AtomicAdd(mem, cell, value) == [mem EXCEPT ![cell] = @ + value]

\* array[index] = value
PlainStore(mem, cell, value) == [mem EXCEPT ![cell] = value]

atomic_add(mem, cell, value) == AtomicAdd(mem, cell, value)

\* the work items of a launch are numbered block by block
DDItems(a) == 0..(a.dd_grid[1] * a.dd_grid[2] * a.dd_block[1] * a.dd_block[2] - 1)

\* cuda.grid(2) of work item n: <<fi, ti>>
DDGrid(a, n) ==
    LET perblock == a.dd_block[1] * a.dd_block[2]
        block == n \div perblock
        thread == n % perblock
        bx == block \div a.dd_grid[2]
        by == block % a.dd_grid[2]
        tx == thread \div a.dd_block[2]
        ty == thread % a.dd_block[2]
    IN  <<bx * a.dd_block[1] + tx, by * a.dd_block[2] + ty>>

\* line 103
DDActive(a, n) == DDGrid(a, n)[1] < a.nf /\ DDGrid(a, n)[2] < a.nt

\* lines 104-111: the sample work item n reads
DDValue(a, n) ==
    LET fi == DDGrid(a, n)[1]
        ti == DDGrid(a, n)[2]
    IN  a.ft[fi][WrapIndex(ti, DelayBin(a, fi, RInt(a.dm)), a.nt)]

\* line 112: the cell (int(fi / downf), int(ti / downt)) of dyn
DDCell(a, n) ==
    (DDGrid(a, n)[1] \div a.downf) * a.ntdown + (DDGrid(a, n)[2] \div a.downt)

\* the kernel body of work item n on the memory of dyn
DDStep(a, mem, n) ==
    IF DDActive(a, n) /\ DDCell(a, n) \in DOMAIN mem
    THEN atomic_add(mem, DDCell(a, n), DDValue(a, n))
    ELSE mem

\* fastdmt[nt, ndms]: block ti, thread dmi
DMTItems(a) == 0..(a.dmt_grid * a.dmt_block - 1)
DMTGrid(a, n) == <<n \div a.dmt_block, n % a.dmt_block>>

RECURSIVE ChannelSum(_, _, _, _)
\* lines 158-167: acc after the channels fi .. nf - 1
ChannelSum(a, ti, dm, fi) ==
    IF fi >= a.nf THEN 0
    ELSE a.ft[fi][WrapIndex(ti, DelayBin(a, fi, dm), a.nt)]
         + ChannelSum(a, ti, dm, fi + 1)

DMTValue(a, n) ==
    LET ti == DMTGrid(a, n)[1]
        dmi == DMTGrid(a, n)[2]
    IN  ChannelSum(a, ti, RAdd(a.dmlow, RMul(RInt(dmi), a.ddm)), 0)

\* line 168: the cell (dmi, int(ti / downt)) of dmt
DMTCell(a, n) ==
    DMTGrid(a, n)[2] * a.ntdown + (DMTGrid(a, n)[1] \div a.downt)

DMTStep(a, mem, n) ==
    IF DMTCell(a, n) \in DOMAIN mem
    THEN atomic_add(mem, DMTCell(a, n), DMTValue(a, n))
    ELSE mem

\* What memory that was allocated but never written holds.
Uninitialised(g, len) == [i \in 0..(len - 1) |-> g * (i + 1)]
Zeros(len) == [i \in 0..(len - 1) |-> 0]

\* features.py lines 267-270: both outputs are cuda.device_array, which does
\* not initialise.  cli.py lines 80-81: dmtx is cuda.device_array, dynx is
\* cuda.to_device(np.zeros(...)).
Allocate ==
    /\ pc = "allocate"
    /\ gpudd' = IF kargs.caller = "make"
                THEN Zeros(kargs.nfdown * kargs.ntdown)
                ELSE Uninitialised(kargs.garbage, kargs.nfdown * kargs.ntdown)
    /\ gpudmt' = Uninitialised(kargs.garbage, kargs.dmt_block * kargs.ntdown)
    /\ kargs' = [kargs EXCEPT !.dd0 = gpudd', !.dmt0 = gpudmt']
    /\ pc' = "dedisperse"
    /\ UNCHANGED <<hdr_dict, fil, cand, src, win, data, host, stream, device,
                   done, spill>>

\* one work item of dedisperse runs
DedisperseItem ==
    /\ pc = "dedisperse"
    /\ \E n \in DDItems(kargs) \ done.dd :
        /\ gpudd' = DDStep(kargs, gpudd, n)
        /\ done' = [done EXCEPT !.dd = @ \cup {n}]
        /\ spill' = IF DDActive(kargs, n) /\ DDCell(kargs, n) \notin DOMAIN gpudd
                    THEN [spill EXCEPT !.dd = @ + 1] ELSE spill
    /\ UNCHANGED <<pc, hdr_dict, fil, cand, src, win, data, host, stream,
                   device, kargs, gpudmt>>

\* the stream starts fastdmt when dedisperse has finished
DedisperseDone ==
    /\ pc = "dedisperse"
    /\ done.dd = DDItems(kargs)
    /\ pc' = "fastdmt"
    /\ UNCHANGED <<hdr_dict, fil, cand, src, win, data, host, stream, device,
                   kargs, gpudd, gpudmt, done, spill>>

\* one work item of fastdmt runs
FastdmtItem ==
    /\ pc = "fastdmt"
    /\ \E n \in DMTItems(kargs) \ done.dmt :
        /\ gpudmt' = DMTStep(kargs, gpudmt, n)
        /\ done' = [done EXCEPT !.dmt = @ \cup {n}]
        /\ spill' = IF DMTCell(kargs, n) \notin DOMAIN gpudmt
                    THEN [spill EXCEPT !.dmt = @ + 1] ELSE spill
    /\ UNCHANGED <<pc, hdr_dict, fil, cand, src, win, data, host, stream,
                   device, kargs, gpudd>>

FastdmtDone ==
    /\ pc = "fastdmt"
    /\ done.dmt = DMTItems(kargs)
    /\ pc' = "finished"
    /\ UNCHANGED <<hdr_dict, fil, cand, src, win, data, host, stream, device,
                   kargs, gpudd, gpudmt, done, spill>>

\* The sizes of the kernel runs that are explored.
KMaxNf == 2         \* channels of the window: 1..KMaxNf
KNt == 2            \* samples of the window
KNdms == 2          \* trial DMs, the block size of fastdmt

\* the edges of dedisperse's thread block that are explored
KTiles == {1, 2}

\* the DM ranges that are explored: a candidate at DM 0 (lines 246 and 254
\* give dmlow = dmhigh = 0) and one at DM 2 with the range zoomed to
\* [7/4, 9/4] (line 253)
KPlans ==
    { [dm |-> 0, dmlow |-> RInt(0), dmhigh |-> RInt(0)],
      [dm |-> 2, dmlow |-> RNorm(7, 4), dmhigh |-> RNorm(9, 4)] }

\* the launch of lines 272-304 for a window of nf x nt samples of a band
\* with fh = 800 MHz, df = 100 MHz, dt = 5 ms, with the thread-block edge
\* and the number of trial DMs as given
KernelArgs(caller, nf, nt, tile, trials, downf, downt, plan, s, g) ==
    [caller |-> caller, garbage |-> g,
     nf |-> nf, nt |-> nt,
     df |-> RInt(1), dt |-> RInt(5), fh |-> RInt(8),
     dm |-> plan.dm, dmlow |-> plan.dmlow,
     ddm |-> RDiv(RSub(plan.dmhigh, plan.dmlow), RInt(trials - 1)),
     downf |-> downf, downt |-> downt,
     nfdown |-> nf \div downf, ntdown |-> nt \div downt,
     dd_grid |-> <<nf \div tile, nt \div tile>>, dd_block |-> <<tile, tile>>,
     dmt_grid |-> nt, dmt_block |-> trials,
     ft |-> [fi \in 0..(nf - 1) |-> [ti \in 0..(nt - 1) |-> 1 + Sample(s, fi, ti)]],
     dd0 |-> << >>, dmt0 |-> << >>]

\* every delay is shorter than the window, as chop's window makes it
DelaysFit(a) ==
    \A fi \in 0..(a.nf - 1), dmi \in 0..(a.dmt_block - 1) :
        /\ DelayBin(a, fi, RInt(a.dm)) < a.nt
        /\ DelayBin(a, fi, RAdd(a.dmlow, RMul(RInt(dmi), a.ddm))) < a.nt

InitKernel ==
    /\ pc = "allocate"
    /\ hdr_dict = None /\ fil = None
    /\ cand = None /\ src = None /\ win = None /\ data = None /\ host = None
    /\ stream = << >> /\ device = "bound"
    /\ \E nf \in 1..KMaxNf, tile \in KTiles, downt \in {1, 2},
          plan \in KPlans, g \in {0, 1}, caller \in {"featurize", "make"} :
          \E downf \in {1, nf} :
              kargs = KernelArgs(caller, nf, KNt, tile, KNdms, downf, downt,
                                 plan, [mul |-> 1, add |-> 2, mod |-> 3], g)
    /\ DelaysFit(kargs)
    /\ gpudd = << >> /\ gpudmt = << >>
    /\ done = [dd |-> {}, dmt |-> {}]
    /\ spill = [dd |-> 0, dmt |-> 0]

NextKernel ==
    \/ Allocate \/ DedisperseItem \/ DedisperseDone \/ FastdmtItem \/ FastdmtDone

SpecKernel == InitKernel /\ [][NextKernel]_vars

RECURSIVE SerialDD(_, _, _)
\* dyn after one thread has run the work items n, n + 1, ... in turn
SerialDD(a, mem, n) ==
    IF n \notin DDItems(a) THEN mem ELSE SerialDD(a, DDStep(a, mem, n), n + 1)

RECURSIVE SerialDMT(_, _, _)
SerialDMT(a, mem, n) ==
    IF n \notin DMTItems(a) THEN mem ELSE SerialDMT(a, DMTStep(a, mem, n), n + 1)

\* C4: when all work items of a kernel have finished, in whatever order
\* they ran, its output holds what one thread running the same work items
\* one after the other leaves in the same memory.
C4_OrderIndependent ==
    /\ (pc \in {"fastdmt", "finished"}) => gpudd = SerialDD(kargs, kargs.dd0, 0)
    /\ (pc = "finished") => gpudmt = SerialDMT(kargs, kargs.dmt0, 0)

\* both kernels have finished and in each some cell took several additions
C4_Witness ==
    /\ pc = "finished"
    /\ \E n, m \in DDItems(kargs) :
          /\ n # m /\ DDActive(kargs, n) /\ DDActive(kargs, m)
          /\ DDCell(kargs, n) = DDCell(kargs, m)
          /\ DDCell(kargs, n) \in DOMAIN gpudd
          /\ DDValue(kargs, n) # DDValue(kargs, m)
    /\ \E n, m \in DMTItems(kargs) :
          /\ n # m
          /\ DMTCell(kargs, n) = DMTCell(kargs, m)
          /\ DMTCell(kargs, n) \in DOMAIN gpudmt
          /\ DMTValue(kargs, n) # DMTValue(kargs, m)

RECURSIVE SumOver(_, _, _)
\* the sum of the values of the work items of set S that add to the cell
SumOver(S, a, target) ==
    IF S = {} THEN 0
    ELSE LET n == CHOOSE x \in S : TRUE
         IN  (IF target[1] = "dd"
              THEN (IF DDActive(a, n) /\ DDCell(a, n) = target[2]
                    THEN DDValue(a, n) ELSE 0)
              ELSE (IF DMTCell(a, n) = target[2] THEN DMTValue(a, n) ELSE 0))
             + SumOver(S \ {n}, a, target)

\* C10: every cell of both outputs is zero before the kernel's first work
\* item adds to it, and each final cell is the sum of the samples added.
C10_OutputsStartAtZero ==
    /\ (pc = "dedisperse" /\ done.dd = {}) =>
           \A c \in DOMAIN gpudd : gpudd[c] = 0
    /\ (pc = "fastdmt" /\ done.dmt = {}) =>
           \A c \in DOMAIN gpudmt : gpudmt[c] = 0
    /\ (pc = "finished") =>
           /\ \A c \in DOMAIN gpudd :
                  gpudd[c] = SumOver(DDItems(kargs), kargs, <<"dd", c>>)
           /\ \A c \in DOMAIN gpudmt :
                  gpudmt[c] = SumOver(DMTItems(kargs), kargs, <<"dmt", c>>)

====
